---- MODULE Spec2Model ----
(***************************************************************************)
(* A model of src/main.py: the keyword-proximity extractor, the InBody     *)
(* report parser, the energy and macro calculator, and the script that     *)
(* wires the input widgets and the uploaded report to the calculator.      *)
(*                                                                         *)
(* Numbers.  The program computes with Python floats; the model computes   *)
(* with exact rationals on integer grids, one grid per quantity:           *)
(*   weight      in tenths of a kilogram        (W10  = 10 * weight_kg)    *)
(*   height      in hundredths of a centimetre  (H100 = 100 * height_cm)   *)
(*   bmr         in sixteenths of a kcal        (16 * bmr)                 *)
(*   factor      in fortieths                   (40 * activity factor)     *)
(*   tdee        in 1/640 kcal                  (640 * tdee)               *)
(*   energies    in 1/64000 kcal                (64000 * kcal)             *)
(*   fat_ratio   in hundredths, protein_per_kg in tenths                   *)
(* A parsed number is a pair <<num, den>>, den a power of ten.             *)
(*                                                                         *)
(* Strings.  A text is a sequence of characters, each character a          *)
(* one-letter string; a Hangul syllable is one character and is written    *)
(* by its romanisation ("che", "jung").  The Korean labels of the          *)
(* selection widgets are written in English: "male" is the label of        *)
(* src/main.py:44, "female" that of line 45, "cut" / "maintain" / "bulk"   *)
(* those of lines 38-40, and "sedentary" .. "very_high" those of 30-34.    *)
(***************************************************************************)
EXTENDS Integers, Sequences, FiniteSets, TLC

VARIABLES
    PYPDF2_AVAILABLE, \* set once by the import at the top of the script
    call,             \* the last direct call of a function: name, arguments, outcome
    ui,               \* the values the input widgets hold
    run               \* what the last run of the script computed from them

vars == <<PYPDF2_AVAILABLE, call, ui, run>>

-----------------------------------------------------------------------------
(* Python values *)

\* Optional[...]: <<>> is None, <<v>> is the value v.
None == <<>>

Some(v) == <<v>>

IsNone(o) == o = <<>>

\* d.get(k, default) of a dict d
Get(d, k, default) == IF k \in DOMAIN d THEN d[k] ELSE default

Max(a, b) == IF a >= b THEN a ELSE b

\* round(n / d) for d > 0 as Python rounds a float: to the nearest integer, a
\* tie to the even one.
Round(n, d) ==
    LET q == n \div d
        r == n % d
    IN  IF 2 * r < d THEN q
        ELSE IF 2 * r > d THEN q + 1
        ELSE IF q % 2 = 0 THEN q ELSE q + 1

-----------------------------------------------------------------------------
(* The tables *)

ACTIVITY_FACTORS ==
    [sedentary |-> 48, light |-> 55, moderate |-> 62, high |-> 69, very_high |-> 76]

GOAL_MAP == [cut |-> -500, maintain |-> 0, bulk |-> 500]

SEX_PROTEIN_RULE == [male |-> <<15, 20>>, female |-> <<12, 15>>]

-----------------------------------------------------------------------------
(* Calculation functions *)

\* 16 * bmr.  10*W = W10, 6.25*H = H100/16.
mifflin_st_jeor_swapped(sex, W10, H100, age) ==
    IF sex = "male"
    THEN 16 * W10 + H100 - 80 * age - 16 * 161
    ELSE 16 * W10 + H100 - 80 * age + 16 * 5

mifflin_st_jeor(sex, W10, H100, age) ==
    IF sex = "male"
    THEN 16 * W10 + H100 - 80 * age + 16 * 5
    ELSE 16 * W10 + H100 - 80 * age - 16 * 161

\* 640 * tdee
tdee_from_activity(bmr16, activity_label) ==
    bmr16 * Get(ACTIVITY_FACTORS, activity_label, 62)

goal_delta(goal_label) == Get(GOAL_MAP, goal_label, 0)

\* 64000 * target_kcal
target_kcal_no_floor(tdee640, goal_label) ==
    100 * (tdee640 + 640 * goal_delta(goal_label))

target_kcal(tdee640, goal_label) ==
    Max(64000 * 1000, 100 * (tdee640 + 640 * goal_delta(goal_label)))

\* ppk, in tenths: "protein_per_kg if protein_per_kg else low"; None and 0.0
\* are the falsy values.
ppk_of(sex, protein_per_kg) ==
    IF ~IsNone(protein_per_kg) /\ protein_per_kg[1] # 0
    THEN protein_per_kg[1]
    ELSE SEX_PROTEIN_RULE[sex][1]

\* 100 * protein_g
protein_g(ppk10, W10) == ppk10 * W10

\* 64000 * protein_kcal = 64000 * 4 * (ppk10 * W10 / 100)
protein_kcal(ppk10, W10) == 2560 * protein_g(ppk10, W10)

\* 64000 * fat_kcal = (64000 * target_kcal) * F100 / 100; target is a multiple of 100
fat_kcal(target, F100) == (target \div 100) * F100

\* 64000 * carb_kcal
carb_kcal_unclamped(target, protein, fat) == target - protein - fat

carb_kcal_ignores_protein(target, protein, fat) == Max(0, target - fat)

carb_kcal(target, protein, fat) == Max(0, target - protein - fat)

\* The local variables of plan_macros once it has run to its return statement.
plan_locals(tdee640, goal_label, sex, W10, F100, protein_per_kg) ==
    LET target == target_kcal(tdee640, goal_label)
        ppk    == ppk_of(sex, protein_per_kg)
        fat    == fat_kcal(target, F100)
        prot   == protein_kcal(ppk, W10)
    IN  [target_kcal  |-> target,
         ppk          |-> ppk,
         protein_g    |-> protein_g(ppk, W10),
         protein_kcal |-> prot,
         fat_kcal     |-> fat,
         carb_kcal    |-> carb_kcal(target, prot, fat)]

\* The outcome of plan_macros: the KeyError of SEX_PROTEIN_RULE[sex], or the
\* returned dict (grams and kcal rounded to whole units).
plan_macros(tdee640, goal_label, sex, W10, F100, protein_per_kg) ==
    IF sex \notin DOMAIN SEX_PROTEIN_RULE
    THEN [raised |-> "KeyError", value |-> None, locals |-> None]
    ELSE LET l == plan_locals(tdee640, goal_label, sex, W10, F100, protein_per_kg)
         IN  [raised |-> "",
              value  |-> Some([target_kcal    |-> Round(l.target_kcal, 64000),
                               protein_g      |-> Round(l.protein_g, 100),
                               fat_g          |-> Round(l.fat_kcal, 9 * 64000),
                               carb_g         |-> Round(l.carb_kcal, 4 * 64000),
                               fat_ratio      |-> F100,
                               protein_per_kg |-> l.ppk]),
              locals |-> Some(l)]

-----------------------------------------------------------------------------
(* Strings *)

Digits == {"0", "1", "2", "3", "4", "5", "6", "7", "8", "9"}

DigitValue ==
    [c \in Digits |->
        CASE c = "0" -> 0 [] c = "1" -> 1 [] c = "2" -> 2 [] c = "3" -> 3
          [] c = "4" -> 4 [] c = "5" -> 5 [] c = "6" -> 6 [] c = "7" -> 7
          [] c = "8" -> 8 [] c = "9" -> 9]

\* The lower-case form of the letters that have one; a digit, a sign, a blank
\* or a Hangul syllable is its own lower-case form.
LowerOf ==
    [A |-> "a", B |-> "b", C |-> "c", D |-> "d", E |-> "e", F |-> "f", G |-> "g",
     H |-> "h", I |-> "i", J |-> "j", K |-> "k", L |-> "l", M |-> "m", N |-> "n",
     O |-> "o", P |-> "p", Q |-> "q", R |-> "r", S |-> "s", T |-> "t", U |-> "u",
     V |-> "v", W |-> "w", X |-> "x", Y |-> "y", Z |-> "z"]

Lower(c) == Get(LowerOf, c, c)

\* s.lower()
LowerStr(s) == [i \in 1..Len(s) |-> Lower(s[i])]

\* the substring s[i..j], empty when j < i
Slice(s, i, j) == [k \in 1..(j - i + 1) |-> s[i + k - 1]]

\* "sub in s"
Contains(sub, s) ==
    \E i \in 1..(Len(s) - Len(sub) + 1) : Slice(s, i, i + Len(sub) - 1) = sub

\* s.replace(",", ".")
ReplaceComma(s) == [i \in 1..Len(s) |-> IF s[i] = "," THEN "." ELSE s[i]]

RECURSIVE DigitsValue(_)
\* the number a run of decimal digits writes
DigitsValue(s) ==
    IF s = <<>> THEN 0
    ELSE 10 * DigitsValue(Slice(s, 1, Len(s) - 1)) + DigitValue[s[Len(s)]]

RECURSIVE Pow10(_)
Pow10(k) == IF k = 0 THEN 1 ELSE 10 * Pow10(k - 1)

RECURSIVE Reduce10(_)
\* <<num, den>> with the trailing zeros of the fraction dropped: 70.50 is 70.5
Reduce10(q) ==
    IF q[2] > 1 /\ q[1] % 10 = 0 THEN Reduce10(<<q[1] \div 10, q[2] \div 10>>) ELSE q

\* float(val) of a string val of the form digits or digits "." digits
Float(val) ==
    LET dots == {i \in 1..Len(val) : val[i] = "."}
    IN  IF dots = {} THEN <<DigitsValue(val), 1>>
        ELSE LET d == CHOOSE i \in dots : TRUE
                 k == Len(val) - d
             IN  Reduce10(<<DigitsValue(Slice(val, 1, d - 1)) * Pow10(k)
                              + DigitsValue(Slice(val, d + 1, Len(val))),
                            Pow10(k)>>)

-----------------------------------------------------------------------------
(* Parsing functions *)

INBODY_KR_KEYS ==
    [weight |-> <<<<"che", "jung">>, <<"mom", "mu", "ge">>, <<"W", "e", "i", "g", "h", "t">>>>,
     smm    |-> <<<<"gol", "gyeok", "geun", "ryang">>, <<"S", "M", "M">>, <<"S", "k", "e", "l", "e", "t", "a", "l", " ", "M", "u", "s", "c", "l", "e", " ", "M", "a", "s", "s">>>>,
     bfm    |-> <<<<"che", "ji", "bang", "ryang">>, <<"B", "o", "d", "y", " ", "F", "a", "t", " ", "M", "a", "s", "s">>>>,
     pbf    |-> <<<<"che", "ji", "bang", "ryul">>, <<"P", "B", "F">>, <<"P", "e", "r", "c", "e", "n", "t", " ", "B", "o", "d", "y", " ", "F", "a", "t">>>>,
     bmr    |-> <<<<"gi", "cho", "dae", "sa", "ryang">>, <<"B", "M", "R">>, <<"B", "a", "s", "a", "l", " ", "M", "e", "t", "a", "b", "o", "l", "i", "c", " ", "R", "a", "t", "e">>>>,
     height |-> <<<<"sin", "jang">>, <<"ki">>, <<"H", "e", "i", "g", "h", "t">>>>]

\* re.escape(kw) at position i of text, under re.IGNORECASE
MatchAt(text, kw, i) ==
    /\ i + Len(kw) - 1 <= Len(text)
    /\ \A k \in 1..Len(kw) : Lower(text[i + k - 1]) = Lower(kw[k])

\* the end of the run of digits that starts at position j
DigitRunEnd(text, j) ==
    CHOOSE e \in j..Len(text) :
        /\ \A k \in j..e : text[k] \in Digits
        /\ (e = Len(text) \/ text[e + 1] \notin Digits)

\* group(1) of kw \D* (\d+(?:[\.,]\d+)?) matched with kw at position i: \D*
\* runs to the first digit after kw, \d+ takes the whole run of digits, and the
\* optional group takes a "." or "," that a digit follows, with its digits.
Group1(text, kw, i) ==
    LET j == CHOOSE p \in (i + Len(kw))..Len(text) :
                 /\ text[p] \in Digits
                 /\ \A k \in (i + Len(kw))..(p - 1) : text[k] \notin Digits
        e == DigitRunEnd(text, j)
        f == IF /\ e + 2 <= Len(text)
                /\ text[e + 1] \in {".", ","}
                /\ text[e + 2] \in Digits
             THEN DigitRunEnd(text, e + 2)
             ELSE e
    IN  Slice(text, j, f)

\* re.search(pattern, text, flags=re.IGNORECASE): the group of the leftmost
\* match, or None.  The pattern matches at i when kw is there and some digit
\* comes after it.
Search(text, kw) ==
    LET starts == {i \in 1..Len(text) :
                      /\ MatchAt(text, kw, i)
                      /\ \E p \in (i + Len(kw))..Len(text) : text[p] \in Digits}
    IN  IF starts = {} THEN None
        ELSE Some(Group1(text, kw, CHOOSE i \in starts : \A o \in starts : i <= o))

\* The mutation: the keyword that occurs first in the text wins, whatever its
\* place in the list.
extract_numbers_earliest_in_text(text, keywords) ==
    LET hit == {k \in 1..Len(keywords) : ~IsNone(Search(text, keywords[k]))}
        at(k) == CHOOSE i \in 1..Len(text) :
                    /\ MatchAt(text, keywords[k], i)
                    /\ \A o \in 1..(i - 1) : ~MatchAt(text, keywords[k], o)
    IN  IF hit = {} THEN None
        ELSE LET k == CHOOSE a \in hit : \A b \in hit : at(a) < at(b) \/ (at(a) = at(b) /\ a <= b)
             IN  Some(Float(ReplaceComma(Search(text, keywords[k])[1])))

\* The loop over keywords: the first keyword with a match returns.  float()
\* of a matched group never fails, so the except branch is never taken.
extract_numbers_near_keywords(text, keywords) ==
    LET hit == {k \in 1..Len(keywords) : ~IsNone(Search(text, keywords[k]))}
    IN  IF hit = {} THEN None
        ELSE LET k == CHOOSE a \in hit : \A b \in hit : a <= b
             IN  Some(Float(ReplaceComma(Search(text, keywords[k])[1])))

AllNone == [k \in DOMAIN INBODY_KR_KEYS |-> None]

RECURSIVE JoinPages(_)
\* "\n".join(page.extract_text() or "" for page in reader.pages)
JoinPages(pages) ==
    IF pages = <<>> THEN <<>>
    ELSE IF Len(pages) = 1 THEN (IF IsNone(pages[1].text) THEN <<>> ELSE pages[1].text[1])
    ELSE JoinPages(Slice(pages, 1, Len(pages) - 1)) \o <<"\n">>
            \o (IF IsNone(pages[Len(pages)].text) THEN <<>> ELSE pages[Len(pages)].text[1])

\* what the try block does with a document: PdfReader raises on bytes that
\* are no PDF, extract_text raises on a page it cannot decode
TryRaises(doc) == ~doc.readable \/ \E i \in 1..Len(doc.pages) : doc.pages[i].raises

\* The mutation: no except clause around the reading of the document.
parse_inbody_pdf_no_except(available, doc) ==
    IF ~available THEN [raised |-> "", value |-> Some(AllNone)]
    ELSE IF TryRaises(doc) THEN [raised |-> "Exception", value |-> None]
    ELSE [raised |-> "",
          value |-> Some([k \in DOMAIN INBODY_KR_KEYS |->
                      extract_numbers_near_keywords(JoinPages(doc.pages), INBODY_KR_KEYS[k])])]

\* available is PYPDF2_AVAILABLE, doc what file_bytes holds
parse_inbody_pdf(available, doc) ==
    IF ~available THEN [raised |-> "", value |-> Some(AllNone)]
    ELSE IF TryRaises(doc) THEN [raised |-> "", value |-> Some(AllNone)]
    ELSE [raised |-> "",
          value |-> Some([k \in DOMAIN INBODY_KR_KEYS |->
                      extract_numbers_near_keywords(JoinPages(doc.pages), INBODY_KR_KEYS[k])])]

-----------------------------------------------------------------------------
(* The script: widgets, upload handling, calculator calls *)

\* a parsed number <<num, den>> on the grid of 1/scale; exact when den divides
\* scale, which holds of every number in the sample reports below
ToGrid(q, scale) == (q[1] * scale) \div q[2]

\* "if parsed.get(k)": neither None nor 0.0
Truthy(o) == ~IsNone(o) /\ o[1][1] # 0

\* float(parsed["height"]) if parsed["height"] > 3 else float(parsed["height"]) * 100,
\* in hundredths of a centimetre
pdf_height(h) == IF h[1] > 3 * h[2] THEN ToGrid(h, 100) ELSE 100 * ToGrid(h, 100)

\* st.number_input(min_value, max_value): the widget holds no value outside
\* its range
number_input(min_value, max_value, v) == min_value <= v /\ v <= max_value

\* st.slider(min_value=low, max_value=high, value=low, step=0.1) of the protein
\* multiplier when the sex changes: its bounds change with the sex, so it is a
\* new widget and holds its default, value=low.
ppk_slider_keeps_value(old_ppk, new_sex) == old_ppk

ppk_slider_on_sex_change(old_ppk, new_sex) == SEX_PROTEIN_RULE[new_sex][1]

\* the values the ppk slider offers
ppk_slider(sex, v) == SEX_PROTEIN_RULE[sex][1] <= v /\ v <= SEX_PROTEIN_RULE[sex][2]

RECURSIVE csv_columns(_, _)
\* The loop over df.columns, from the state st = [weight_kg, height_cm, pbf,
\* report_height, failed]: a cell that float() rejects ends the loop and
\* leaves what the earlier columns assigned.
csv_columns(cols, st) ==
    IF cols = <<>> \/ st.failed THEN st
    ELSE LET col  == cols[1].name
             cell == cols[1].cell
             lc   == LowerStr(col)
             isW  == Contains(<<"w", "e", "i", "g", "h", "t">>, lc) \/ Contains(<<"che", "jung">>, col)
             isH  == Contains(<<"h", "e", "i", "g", "h", "t">>, lc) \/ Contains(<<"sin", "jang">>, col)
             isP  == Contains(<<"p", "b", "f">>, lc) \/ Contains(<<"che", "ji", "bang", "ryul">>, col)
         IN  IF (isW \/ isH \/ isP) /\ IsNone(cell)
             THEN [st EXCEPT !.failed = TRUE]
             ELSE csv_columns(Tail(cols),
                    [st EXCEPT
                        !.weight_kg = IF isW THEN ToGrid(cell[1], 10) ELSE @,
                        !.height_cm = IF isH THEN ToGrid(cell[1], 100) ELSE @,
                        !.report_height = IF isH THEN cell ELSE @,
                        !.pbf = IF isP THEN cell ELSE @])

\* the metrics as the four input widgets give them, before the upload is read
Manual(u) ==
    [weight_kg |-> u.weight, height_cm |-> u.height, pbf |-> None,
     smm |-> None, report_height |-> None, failed |-> FALSE]

\* the PDF branch: what parsed, the dict parse_inbody_pdf returned, overrides
load_pdf(manual, parsed) ==
    [manual EXCEPT
        !.height_cm = IF Truthy(parsed.height) THEN pdf_height(parsed.height[1]) ELSE @,
        !.report_height = IF Truthy(parsed.height) THEN parsed.height ELSE @,
        !.weight_kg = IF Truthy(parsed.weight) THEN ToGrid(parsed.weight[1], 10) ELSE @,
        !.pbf = IF Truthy(parsed.pbf) THEN parsed.pbf ELSE @,
        !.smm = IF Truthy(parsed.smm) THEN parsed.smm ELSE @]

\* the CSV branch: pd.read_csv may raise, and so may the loop
load_csv(manual, file) ==
    IF ~file.readable THEN [manual EXCEPT !.failed = TRUE]
    ELSE csv_columns(file.columns, manual)

\* "if up is not None": the branch on up.type
Load(available, u) ==
    IF IsNone(u.up) THEN Manual(u)
    ELSE IF u.up[1].type = "text/csv" THEN load_csv(Manual(u), u.up[1])
    ELSE IF u.up[1].type = "application/pdf"
    THEN load_pdf(Manual(u), parse_inbody_pdf(available, u.up[1].doc).value[1])
    ELSE Manual(u)

\* the calls of the right-hand column, on the metrics the left-hand column left
Calculate(u, loaded, bmr) ==
    [weight_kg     |-> loaded.weight_kg,
     height_cm     |-> loaded.height_cm,
     pbf           |-> loaded.pbf,
     smm           |-> loaded.smm,
     report_height |-> loaded.report_height,
     csv_failed    |-> loaded.failed,
     calc_args     |-> <<u.sex, loaded.weight_kg, loaded.height_cm, u.age>>,
     bmr           |-> bmr,
     tdee          |-> tdee_from_activity(bmr, u.activity),
     macros        |-> plan_macros(tdee_from_activity(bmr, u.activity), u.goal, u.sex,
                                   loaded.weight_kg, u.fat_ratio, Some(u.ppk))]

Metrics(u, loaded) ==
    Calculate(u, loaded, mifflin_st_jeor(u.sex, loaded.weight_kg, loaded.height_cm, u.age))

\* One run of the script, top to bottom, on the widget values u.  The meal and
\* training tables and the download are computed from macros and goal and feed
\* nothing back; they are left out.
Script(available, u) == Metrics(u, Load(available, u))

\* the widgets as the script first draws them
DefaultUi ==
    [up |-> None, sex |-> "male", age |-> 28, height |-> 17500, weight |-> 700,
     activity |-> "moderate", goal |-> "cut", ppk |-> SEX_PROTEIN_RULE["male"][1],
     fat_ratio |-> 20]

-----------------------------------------------------------------------------
(* Direct calls of the calculation functions *)

\* tdee arguments run from -250 kcal to 250 * MaxTdeeSteps kcal
MaxTdeeSteps == 12

SexArgs == DOMAIN SEX_PROTEIN_RULE \cup {"other"}

ActivityArgs == DOMAIN ACTIVITY_FACTORS \cup {"unknown"}

GoalArgs == DOMAIN GOAL_MAP \cup {"unknown"}

WeightArgs == {300, 705, 1000, 3000}

HeightArgs == {12000, 17500, 22000}

AgeArgs == {14, 28, 90}

FatRatioArgs == {15, 20, 30}

\* not supplied, 0.0, and the ends of the two bound pairs
ProteinArgs == {None, Some(0), Some(12), Some(15), Some(20)}

TdeeArgs == {640 * 250 * i : i \in (-1)..MaxTdeeSteps} \cup {640 * 1566}

BmrArgs == {mifflin_st_jeor(s, 705, 17500, a) : s \in SexArgs, a \in AgeArgs}

CalcCalls ==
    {[fn |-> "mifflin_st_jeor", args |-> <<s, w, h, a>>, returned |-> FALSE, ret |-> None] :
        s \in SexArgs, w \in WeightArgs, h \in HeightArgs, a \in AgeArgs}
    \cup
    {[fn |-> "tdee_from_activity", args |-> <<b, act>>, returned |-> FALSE, ret |-> None] :
        b \in BmrArgs, act \in ActivityArgs}
    \cup
    {[fn |-> "plan_macros", args |-> <<<<t, g, s>>, <<w, f, p>>>>, returned |-> FALSE, ret |-> None] :
        t \in TdeeArgs, g \in GoalArgs, s \in SexArgs,
        w \in WeightArgs, f \in FatRatioArgs, p \in ProteinArgs}

Pending(fn) == call.fn = fn /\ ~call.returned

Return(r) == call' = [call EXCEPT !.returned = TRUE, !.ret = r]

CallMifflin ==
    /\ Pending("mifflin_st_jeor")
    /\ Return([raised |-> "",
               value |-> Some(mifflin_st_jeor(call.args[1], call.args[2],
                                              call.args[3], call.args[4]))])
    /\ UNCHANGED <<PYPDF2_AVAILABLE, ui, run>>

CallTdee ==
    /\ Pending("tdee_from_activity")
    /\ Return([raised |-> "",
               value |-> Some(tdee_from_activity(call.args[1], call.args[2]))])
    /\ UNCHANGED <<PYPDF2_AVAILABLE, ui, run>>

CallPlanMacros ==
    /\ Pending("plan_macros")
    /\ Return(plan_macros(call.args[1][1], call.args[1][2], call.args[1][3],
                          call.args[2][1], call.args[2][2], call.args[2][3]))
    /\ UNCHANGED <<PYPDF2_AVAILABLE, ui, run>>

-----------------------------------------------------------------------------
(* Direct calls of the parsing functions *)

\* a text argument is made of at most MaxChunks pieces
MaxChunks == 4

\* a document has at most MaxPages pages
MaxPages == 2

Chunks ==
    {<<"W", "e", "i", "g", "h", "t">>, <<"W", "E", "I", "G", "H", "T">>, <<"che", "jung">>, <<"H", "e", "i", "g", "h", "t">>,
     <<"7">>, <<"7", ",", "5">>, <<",">>, <<".">>, <<" ">>}

RECURSIVE Flatten(_)
Flatten(ss) == IF ss = <<>> THEN <<>> ELSE ss[1] \o Flatten(Tail(ss))

TextArgs == {Flatten(cs) : cs \in UNION {[1..n -> Chunks] : n \in 0..MaxChunks}}

KeywordArgs == {INBODY_KR_KEYS.weight, INBODY_KR_KEYS.height}

PageTexts ==
    {Flatten(<<<<"W", "e", "i", "g", "h", "t">>, <<" ">>, <<"7", "0", ",", "5">>>>),
     Flatten(<<<<"sin", "jang">>, <<":">>, <<"1", ".", "7", "5">>>>),
     Flatten(<<<<"P", "B", "F">>, <<" ">>, <<"2", "1">>, <<"\n">>, <<"s", "m", "m">>, <<" ">>, <<"3", "0">>>>)}

PageArgs ==
    {[raises |-> TRUE, text |-> None], [raises |-> FALSE, text |-> None]}
    \cup {[raises |-> FALSE, text |-> Some(t)] : t \in PageTexts}

DocArgs ==
    {[readable |-> r, pages |-> ps] :
        r \in BOOLEAN, ps \in UNION {[1..n -> PageArgs] : n \in 0..MaxPages}}

ParseCalls ==
    {[fn |-> "extract_numbers_near_keywords", args |-> <<t, k>>, returned |-> FALSE, ret |-> None] :
        t \in TextArgs, k \in KeywordArgs}
    \cup
    {[fn |-> "parse_inbody_pdf", args |-> <<d>>, returned |-> FALSE, ret |-> None] :
        d \in DocArgs}

CallExtract ==
    /\ Pending("extract_numbers_near_keywords")
    /\ Return([raised |-> "",
               value |-> Some(extract_numbers_near_keywords(call.args[1], call.args[2]))])
    /\ UNCHANGED <<PYPDF2_AVAILABLE, ui, run>>

CallParsePdf ==
    /\ Pending("parse_inbody_pdf")
    /\ Return(parse_inbody_pdf(PYPDF2_AVAILABLE, call.args[1]))
    /\ UNCHANGED <<PYPDF2_AVAILABLE, ui, run>>

InitCalc ==
    /\ PYPDF2_AVAILABLE \in BOOLEAN
    /\ ui = DefaultUi
    /\ run = Script(PYPDF2_AVAILABLE, DefaultUi)
    /\ call \in CalcCalls

NextCalc == CallMifflin \/ CallTdee \/ CallPlanMacros

SpecCalc == InitCalc /\ [][NextCalc]_vars

\* the import flag is drawn both ways for the one function that reads it
InitParse ==
    /\ call \in ParseCalls
    /\ PYPDF2_AVAILABLE \in (IF call.fn = "parse_inbody_pdf" THEN BOOLEAN ELSE {TRUE})
    /\ ui = DefaultUi
    /\ run = Script(PYPDF2_AVAILABLE, DefaultUi)

NextParse == CallExtract \/ CallParsePdf

SpecParse == InitParse /\ [][NextParse]_vars

NoCall == [fn |-> "", args |-> <<>>, returned |-> FALSE, ret |-> None]

-----------------------------------------------------------------------------
(* The user at the widgets: every change reruns the script *)

\* entries tried at the three number inputs; the widgets refuse those outside
\* their ranges
AgeEntries == {13, 28, 90, 91}

HeightEntries == {11900, 12000, 17500}

WeightEntries == {299, 700, 1000, 3000, 3001}

ActivityChoices == {"sedentary", "moderate"}

FatRatioChoices == {20, 30}

\* positions tried at the protein slider; it offers those within its bounds
PpkChoices == {11, 12, 15, 20, 21}

Num(n, d) == Some(<<n, d>>)

Column(name, cell) == [name |-> name, cell |-> cell]

Page(t) == [raises |-> FALSE, text |-> Some(t)]

PdfFile(doc) == [type |-> "application/pdf", doc |-> doc, readable |-> TRUE, columns |-> <<>>]

CsvFile(type, readable, columns) ==
    [type |-> type, doc |-> [readable |-> FALSE, pages |-> <<>>],
     readable |-> readable, columns |-> columns]

\* the reports the user may upload
Uploads ==
    {PdfFile([readable |-> FALSE, pages |-> <<>>]),
     PdfFile([readable |-> TRUE, pages |-> <<Page(<<"H", "e", "i", "g", "h", "t", " ", "1", ".", "7", "5", " ", "W", "e", "i", "g", "h", "t", " ", "7", "0", ",", "5">>)>>]),
     PdfFile([readable |-> TRUE, pages |-> <<Page(<<"sin", "jang", " ", "1", "7", "5", " ", "che", "jung", " ", "5", "0", "0">>)>>]),
     PdfFile([readable |-> TRUE, pages |-> <<Page(<<"P", "B", "F", " ", "2", "1">>), Page(<<"S", "M", "M", " ", "3", "0">>)>>]),
     CsvFile("text/csv", FALSE, <<>>),
     CsvFile("text/csv", TRUE, <<Column(<<"H", "e", "i", "g", "h", "t">>, Num(175, 100)), Column(<<"W", "e", "i", "g", "h", "t">>, Num(705, 10))>>),
     CsvFile("text/csv", TRUE, <<Column(<<"w", "e", "i", "g", "h", "t", "_", "k", "g">>, Num(80, 1)), Column(<<"h", "e", "i", "g", "h", "t", "_", "c", "m">>, None)>>),
     CsvFile("text/csv", TRUE, <<Column(<<"n", "a", "m", "e">>, None), Column(<<"sin", "jang">>, Num(180, 1)), Column(<<"P", "B", "F">>, Num(21, 1))>>),
     CsvFile("application/vnd.ms-excel", TRUE, <<Column(<<"W", "e", "i", "g", "h", "t">>, Num(500, 1))>>)}

Rerun(u) == ui' = u /\ run' = Script(PYPDF2_AVAILABLE, u)

Upload ==
    /\ \E f \in Uploads : Some(f) # ui.up /\ Rerun([ui EXCEPT !.up = Some(f)])
    /\ UNCHANGED <<PYPDF2_AVAILABLE, call>>

RemoveUpload ==
    /\ ~IsNone(ui.up)
    /\ Rerun([ui EXCEPT !.up = None])
    /\ UNCHANGED <<PYPDF2_AVAILABLE, call>>

SetSex ==
    /\ \E s \in DOMAIN SEX_PROTEIN_RULE :
          /\ s # ui.sex
          /\ Rerun([ui EXCEPT !.sex = s, !.ppk = ppk_slider_on_sex_change(ui.ppk, s)])
    /\ UNCHANGED <<PYPDF2_AVAILABLE, call>>

SetAge ==
    /\ \E a \in AgeEntries : number_input(14, 90, a) /\ Rerun([ui EXCEPT !.age = a])
    /\ UNCHANGED <<PYPDF2_AVAILABLE, call>>

SetHeight ==
    /\ \E h \in HeightEntries :
          number_input(100 * 120, 100 * 220, h) /\ Rerun([ui EXCEPT !.height = h])
    /\ UNCHANGED <<PYPDF2_AVAILABLE, call>>

SetWeight ==
    /\ \E w \in WeightEntries :
          number_input(10 * 30, 10 * 300, w) /\ Rerun([ui EXCEPT !.weight = w])
    /\ UNCHANGED <<PYPDF2_AVAILABLE, call>>

SetActivity ==
    /\ \E a \in ActivityChoices : Rerun([ui EXCEPT !.activity = a])
    /\ UNCHANGED <<PYPDF2_AVAILABLE, call>>

SetGoal ==
    /\ \E g \in DOMAIN GOAL_MAP : Rerun([ui EXCEPT !.goal = g])
    /\ UNCHANGED <<PYPDF2_AVAILABLE, call>>

SetPpk ==
    /\ \E p \in PpkChoices : ppk_slider(ui.sex, p) /\ Rerun([ui EXCEPT !.ppk = p])
    /\ UNCHANGED <<PYPDF2_AVAILABLE, call>>

SetFatRatio ==
    /\ \E f \in FatRatioChoices : Rerun([ui EXCEPT !.fat_ratio = f])
    /\ UNCHANGED <<PYPDF2_AVAILABLE, call>>

Init ==
    /\ PYPDF2_AVAILABLE \in BOOLEAN
    /\ call = NoCall
    /\ ui = DefaultUi
    /\ run = Script(PYPDF2_AVAILABLE, DefaultUi)

Next ==
    \/ Upload \/ RemoveUpload
    \/ SetSex \/ SetAge \/ SetHeight \/ SetWeight
    \/ SetActivity \/ SetGoal \/ SetPpk \/ SetFatRatio

Spec == Init /\ [][Next]_vars

-----------------------------------------------------------------------------
(* The claims *)

Returned(fn) == call.fn = fn /\ call.returned

PlanReturned == Returned("plan_macros") /\ call.ret.raised = ""

\* C1: for every tdee and every goal label (cut -500, maintain 0, bulk +500,
\* any other label 0) the plan's target_kcal is max(1000, tdee + goal_delta)
\* before rounding, and the rounded target_kcal is never below 1000.
C1_TargetFloor ==
    PlanReturned =>
        LET tdee  == call.args[1][1]
            goal  == call.args[1][2]
            delta == CASE goal = "cut" -> -500 [] goal = "bulk" -> 500 [] OTHER -> 0
            sum   == 100 * (tdee + 640 * delta)
            want  == IF sum < 64000 * 1000 THEN 64000 * 1000 ELSE sum
        IN  /\ call.ret.locals[1].target_kcal = want
            /\ call.ret.value[1].target_kcal = Round(want, 64000)
            /\ call.ret.value[1].target_kcal >= 1000

\* a plan whose tdee + goal_delta lies below 1000 kcal and whose target is the floor
C1_Witness ==
    /\ PlanReturned
    /\ call.args[1][2] = "cut"
    /\ call.args[1][1] - 640 * 500 < 640 * 1000
    /\ call.args[1][1] > 0
    /\ call.ret.value[1].target_kcal = 1000

\* the inputs C2 speaks of: weight in [30, 300], a sex of the table, fat_ratio
\* in [0.15, 0.30], protein_per_kg within the sex's bound pair
C2_Inputs ==
    /\ run.macros.raised = ""
    /\ run.calc_args[1] \in {"male", "female"}
    /\ run.calc_args[2] >= 300 /\ run.calc_args[2] <= 3000
    /\ run.macros.value[1].fat_ratio >= 15 /\ run.macros.value[1].fat_ratio <= 30
    /\ run.macros.locals[1].ppk >= SEX_PROTEIN_RULE[run.calc_args[1]][1]
    /\ run.macros.locals[1].ppk <= SEX_PROTEIN_RULE[run.calc_args[1]][2]

\* C2 as stated: in every plan protein_kcal + fat_kcal <= target_kcal.
C2_ProteinFatWithinTarget ==
    C2_Inputs =>
        run.macros.locals[1].protein_kcal + run.macros.locals[1].fat_kcal
            <= run.macros.locals[1].target_kcal

\* C2 as amended: protein_kcal + fat_kcal + carb_kcal = max(target_kcal,
\* protein_kcal + fat_kcal).  While protein and fat fit, carbohydrate fills the
\* rest of the target; when they alone exceed the target, carbohydrate is zero
\* and protein and fat stay above the target.
C2_CarbFillsOrClamps ==
    C2_Inputs =>
        LET l  == run.macros.locals[1]
            pf == l.protein_kcal + l.fat_kcal
        IN  /\ pf + l.carb_kcal = Max(l.target_kcal, pf)
            /\ pf > l.target_kcal => run.macros.value[1].carb_g = 0
            /\ l.carb_kcal > 0 => pf < l.target_kcal

\* a plan from manual entries alone whose protein and fat exceed the target
C2_Witness ==
    /\ C2_Inputs
    /\ IsNone(ui.up)
    /\ run.macros.locals[1].protein_kcal + run.macros.locals[1].fat_kcal
          > run.macros.locals[1].target_kcal
    /\ run.macros.value[1].carb_g = 0

\* C3: carb_g is never negative: carb_kcal = max(0, target_kcal - protein_kcal
\* - fat_kcal) and carb_g = carb_kcal / 4, rounded.
C3_CarbNeverNegative ==
    PlanReturned =>
        LET l    == call.ret.locals[1]
            rest == l.target_kcal - l.protein_kcal - l.fat_kcal
        IN  /\ call.ret.value[1].carb_g >= 0
            /\ l.carb_kcal = (IF rest < 0 THEN 0 ELSE rest)
            /\ call.ret.value[1].carb_g = Round(l.carb_kcal, 4 * 64000)

\* a plan with protein_per_kg not supplied where the remainder is negative
C3_Witness ==
    /\ PlanReturned
    /\ IsNone(call.args[2][3])
    /\ call.ret.locals[1].target_kcal - call.ret.locals[1].protein_kcal
          - call.ret.locals[1].fat_kcal < 0
    /\ call.ret.locals[1].carb_kcal = 0
    /\ call.ret.value[1].carb_g = 0

C9_MifflinFormula ==
    LET sex == call.args[1]
        W10 == call.args[2]
        H100 == call.args[3]
        A == call.args[4]
    IN  (/\ Returned("mifflin_st_jeor")
         /\ W10 >= 300 /\ W10 <= 3000 /\ H100 >= 12000 /\ H100 <= 22000 /\ A >= 14 /\ A <= 90)
        => /\ call.ret.raised = ""
           /\ sex = "male" => 10 * call.ret.value[1] = 160 * W10 + 10 * H100 - 800 * A + 800
           /\ sex = "female" => 10 * call.ret.value[1] = 160 * W10 + 10 * H100 - 800 * A - 25760
           /\ mifflin_st_jeor("male", W10, H100, A)
                 = mifflin_st_jeor("female", W10, H100, A) + 16 * 166

\* male, 70.5 kg, 175 cm, 28 years: 705 + 1093.75 - 140 + 5 = 1663.75
C9_Witness ==
    /\ Returned("mifflin_st_jeor")
    /\ call.args = <<"male", 705, 17500, 28>>
    /\ call.ret.value[1] = 16 * 1663 + 12

-----------------------------------------------------------------------------

SixFields == {"weight", "smm", "bfm", "pbf", "bmr", "height"}

\* C7: parse_inbody_pdf never raises and returns a mapping with exactly the six
\* fields; with the backend unavailable, or a document that is empty, corrupt
\* or unreadable, every field is None.
C7_ParserNeverRaises ==
    Returned("parse_inbody_pdf") =>
        LET doc == call.args[1]
        IN  /\ call.ret.raised = ""
            /\ ~IsNone(call.ret.value)
            /\ DOMAIN call.ret.value[1] = SixFields
            /\ (\/ ~PYPDF2_AVAILABLE
                \/ ~doc.readable
                \/ \E i \in 1..Len(doc.pages) : doc.pages[i].raises
                \/ \A i \in 1..Len(doc.pages) : IsNone(doc.pages[i].text))
                  => \A k \in SixFields : IsNone(call.ret.value[1][k])

\* the backend is there and the document is not a PDF
C7_Witness ==
    /\ Returned("parse_inbody_pdf")
    /\ PYPDF2_AVAILABLE
    /\ ~call.args[1].readable
    /\ call.ret.raised = ""
    /\ \A k \in SixFields : IsNone(call.ret.value[1][k])

\* where kw stands in text, letter case aside
C10_Occurrences(text, kw) ==
    {i \in 1..(Len(text) - Len(kw) + 1) :
        LowerStr(Slice(text, i, i + Len(kw) - 1)) = LowerStr(kw)}

\* the occurrences of kw that some digit follows
C10_Numbered(text, kw) ==
    {i \in C10_Occurrences(text, kw) :
        \E p \in (i + Len(kw))..Len(text) : text[p] \in Digits}

RECURSIVE C10_ReadDigits(_, _, _)
\* <<the value of the digits of text from position p on, added to 10^n * acc,
\*   the position after them>>
C10_ReadDigits(text, p, acc) ==
    IF p <= Len(text) /\ text[p] \in Digits
    THEN C10_ReadDigits(text, p + 1, 10 * acc + DigitValue[text[p]])
    ELSE <<acc, p>>

\* the number written at position p, as <<num, den>>: digits, and a fraction
\* when a "." or a "," with a digit after it follows them
C10_NumberAt(text, p) ==
    LET whole == C10_ReadDigits(text, p, 0)
        q     == whole[2]
    IN  IF q + 1 <= Len(text) /\ text[q] \in {".", ","} /\ text[q + 1] \in Digits
        THEN LET all == C10_ReadDigits(text, q + 1, whole[1])
             IN  <<all[1], Pow10(all[2] - (q + 1))>>
        ELSE <<whole[1], 1>>

C10_Min(S) == CHOOSE a \in S : \A b \in S : a <= b

-----------------------------------------------------------------------------

\* C5 as stated: a height taken from an uploaded report, PDF or CSV, is used
\* normalised: times 100 when it is <= 3, unchanged when it is > 3.
C5_HeightNormalised ==
    ~IsNone(run.report_height) =>
        LET h == run.report_height[1]
        IN  run.height_cm * h[2] = (IF h[1] <= 3 * h[2] THEN 100 * 100 * h[1] ELSE 100 * h[1])

\* C6 as stated: the metrics passed to the calculator are in range: age in
\* [14, 90], height in [120, 220] cm, weight in [30, 300] kg.
C6_MetricsInRange ==
    /\ run.calc_args[4] >= 14 /\ run.calc_args[4] <= 90
    /\ run.calc_args[3] >= 100 * 120 /\ run.calc_args[3] <= 100 * 220
    /\ run.calc_args[2] >= 10 * 30 /\ run.calc_args[2] <= 10 * 300

\* C8: in every plan the script produces protein_per_kg lies within the bound
\* pair of the plan's sex (male 1.5 to 2.0, female 1.2 to 1.5), whatever the
\* sex and protein inputs went through; not supplied, it is the lower bound.
C8_ProteinPerKgInBounds ==
    LET sex  == run.calc_args[1]
        low  == IF sex = "male" THEN 15 ELSE 12
        high == IF sex = "male" THEN 20 ELSE 15
    IN  /\ run.macros.raised = ""
        /\ run.macros.value[1].protein_per_kg >= low
        /\ run.macros.value[1].protein_per_kg <= high
        /\ plan_macros(run.tdee, ui.goal, sex, run.weight_kg, ui.fat_ratio, None)
               .value[1].protein_per_kg = low

\* the sex was changed to female and the slider then moved to its upper end
C8_Witness ==
    /\ ui.sex = "female"
    /\ run.calc_args[1] = "female"
    /\ run.macros.value[1].protein_per_kg = 15

====
